---------------------------- MODULE Spec2Model ----------------------------
(***************************************************************************)
(* Security-scan glue of the toolkit: the scan-job status poller, the      *)
(* result aggregator and the artifact uploader of                          *)
(* packages/core/src/codewhisperer/service/securityScanHandler.ts.         *)
(*                                                                         *)
(* Every async function is cut at its awaits: the code between two awaits  *)
(* runs to completion on the extension host's single thread, so it is one  *)
(* action; what the awaited promise settles with is the action's input.    *)
(***************************************************************************)
EXTENDS Integers, Sequences, FiniteSets, TLC

VARIABLES
    \* ---- pollScanJobStatus ----
    pollInterval,      \* CodeWhispererConstants.codeScanJobPollingIntervalSeconds
    timeoutSeconds,    \* CodeWhispererConstants.codeScanJobTimeoutSeconds
    cancelling,        \* codeScanState.isCancelling()
    pollPc,            \* where pollScanJobStatus stands
    status,            \* its local `status`
    timer,             \* its local `timer`
    pollResult,        \* the value it returned, "none" before
    queries,           \* history: client.getCodeScan calls issued
    sleeps,            \* history: sleep calls issued
    opLog,             \* history: the calls in order, "Q" or "S"
    pendingSeen,       \* history: answers equal to 'Pending'
    lastAnswer,        \* history: the latest answer of getCodeScan
    cancelPc,          \* history: pollPc when the flag was set, "unset" before
    \* ---- listScanResults ----
    aggPc,             \* where listScanResults stands
    pages,             \* the findings documents received so far, one per page
    pageRequests,      \* history: client.listCodeScanFindings calls issued
    aggResult,         \* the returned aggregatedCodeScanIssueList, <<>> before
    aggError,          \* the error that left listScanResults, "none" before
    \* ---- line normalisation of one finding ----
    rawLines,          \* a raw finding's startLine and endLine
    outLines,          \* the emitted finding's, <<>> before
    \* ---- getPresignedUrlAndUpload ----
    upPc,              \* where getPresignedUrlAndUpload stands
    zipFilePath,       \* truncation.zipFilePath
    srcReq,            \* the CreateUploadUrlRequest sent, <<>> before
    srcResp,           \* the CreateUploadUrlResponse received, <<>> before
    putRequest,        \* the PUT issued by request.fetch, <<>> before
    putOutcome,        \* what the PUT settled with, <<>> before
    artifactMap,       \* the returned ArtifactMap, <<>> before
    upError,           \* the message of the error that left the function
    md5Calls,          \* history: getMd5 calls
    urlRequests,       \* history: client.createUploadUrl calls
    puts,              \* history: PUT requests issued
    \* ---- showCodeWhispererWebview ----
    activePanel,       \* the module's activePanel: <<>> or <<panel>>
    subscriptions,     \* the module's subscriptions: <<>> or <<webview>>, the
                       \* webview whose onDidDispose holds the handler
    panelWebview,      \* per Panel instance: its webview, 0 when it has none
    openWebviews,      \* the webviews shown and not disposed
    pendingShows,      \* the show-requests suspended at `await show`
    panelsCreated,     \* history: new Panel(...) calls
    webviewsCreated,   \* history: webviews created by show
    showRequests,      \* history: showCodeWhispererWebview calls
    \* ---- CodeWhispererWebview.openFile ----
    isFileSaved,       \* the instance's isFileSaved
    files,             \* the workspace folder: a file's content, "absent" if none
    pendingWrites,     \* the fs.promises.writeFile calls in flight
    shownFile,         \* the file last shown in the editor, "none" before
    opens,             \* history: openFile calls
    writesDone,        \* history: writeFile calls that completed
    lastOpen           \* history: the latest openFile call, <<>> before

pollVars == <<pollInterval, timeoutSeconds, cancelling, pollPc, status, timer,
              pollResult, queries, sleeps, opLog, pendingSeen, lastAnswer, cancelPc>>

aggVars == <<aggPc, pages, pageRequests, aggResult, aggError>>

lineVars == <<rawLines, outLines>>

upVars == <<upPc, zipFilePath, srcReq, srcResp, putRequest, putOutcome, artifactMap,
            upError, md5Calls, urlRequests, puts>>

panelVars == <<activePanel, subscriptions, panelWebview, openWebviews, pendingShows,
               panelsCreated, webviewsCreated, showRequests>>

fileVars == <<isFileSaved, files, pendingWrites, shownFile, opens, writesDone, lastOpen>>

-----------------------------------------------------------------------------
(* Bounds of the model *)

MaxInterval == 2
MaxTimeout == 3
MaxPages == 2
MaxFindings == 3
MaxLine == 6
MaxShows == 3
MaxOpens == 2

-----------------------------------------------------------------------------
(* pollScanJobStatus *)

\* The values getCodeScan's resp.status takes: the service's set and one
\* value outside it.
Statuses == {"Pending", "Completed", "Failed", "Cancelled", "Unknown"}

PollTerminal == {"returned", "stopped", "timeout", "failed"}

\* The loop head without its cancellation check.
LoopHead_NoCancelCheck ==
    /\ pollPc' = "query"
    /\ queries' = queries + 1
    /\ opLog' = Append(opLog, "Q")

\* Lines 102-106: throwIfCancelled(), then the status query is issued.
LoopHead ==
    IF cancelling
    THEN /\ pollPc' = "stopped"
         /\ UNCHANGED <<queries, opLog>>
    ELSE /\ pollPc' = "query"
         /\ queries' = queries + 1
         /\ opLog' = Append(opLog, "Q")

\* The call: the locals are initialised and the function runs to its first
\* await.
PollStart ==
    /\ pollPc = "idle"
    /\ status' = "Pending"
    /\ timer' = 0
    /\ LoopHead
    /\ UNCHANGED <<pollInterval, timeoutSeconds, cancelling, pollResult, sleeps,
                   pendingSeen, lastAnswer, cancelPc>>
    /\ UNCHANGED <<aggVars, lineVars, upVars, panelVars, fileVars>>

\* The answer handler that forgets to assign resp.status to status.
GetCodeScanResponds_NoAssign(s) ==
    /\ pollPc = "query"
    /\ lastAnswer' = s
    /\ IF s # "Pending"
       THEN /\ pollPc' = "returned"
            /\ pollResult' = status
            /\ UNCHANGED <<status, sleeps, opLog, pendingSeen>>
       ELSE /\ pendingSeen' = pendingSeen + 1
            /\ IF cancelling
               THEN /\ pollPc' = "stopped"
                    /\ UNCHANGED <<sleeps, opLog>>
               ELSE /\ pollPc' = "sleep"
                    /\ sleeps' = sleeps + 1
                    /\ opLog' = Append(opLog, "S")
            /\ UNCHANGED <<status, pollResult>>
    /\ UNCHANGED <<pollInterval, timeoutSeconds, cancelling, timer, queries, cancelPc>>
    /\ UNCHANGED <<aggVars, lineVars, upVars, panelVars, fileVars>>

\* The answer handler without the cancellation check of line 114.
GetCodeScanResponds_NoCancelCheck(s) ==
    /\ pollPc = "query"
    /\ lastAnswer' = s
    /\ IF s # "Pending"
       THEN /\ status' = s
            /\ pollPc' = "returned"
            /\ pollResult' = status'
            /\ UNCHANGED <<sleeps, opLog, pendingSeen>>
       ELSE /\ pendingSeen' = pendingSeen + 1
            /\ pollPc' = "sleep"
            /\ sleeps' = sleeps + 1
            /\ opLog' = Append(opLog, "S")
            /\ UNCHANGED <<status, pollResult>>
    /\ UNCHANGED <<pollInterval, timeoutSeconds, cancelling, timer, queries, cancelPc>>
    /\ UNCHANGED <<aggVars, lineVars, upVars, panelVars, fileVars>>

\* Lines 106-115 and 123: getCodeScan answers s. A non-Pending answer ends the
\* loop and is returned; after a Pending one throwIfCancelled() runs and the
\* sleep is started.
GetCodeScanResponds(s) ==
    /\ pollPc = "query"
    /\ lastAnswer' = s
    /\ IF s # "Pending"
       THEN /\ status' = s
            /\ pollPc' = "returned"
            /\ pollResult' = status'
            /\ UNCHANGED <<sleeps, opLog, pendingSeen>>
       ELSE /\ pendingSeen' = pendingSeen + 1
            /\ IF cancelling
               THEN /\ pollPc' = "stopped"
                    /\ UNCHANGED <<sleeps, opLog>>
               ELSE /\ pollPc' = "sleep"
                    /\ sleeps' = sleeps + 1
                    /\ opLog' = Append(opLog, "S")
            /\ UNCHANGED <<status, pollResult>>
    /\ UNCHANGED <<pollInterval, timeoutSeconds, cancelling, timer, queries, cancelPc>>
    /\ UNCHANGED <<aggVars, lineVars, upVars, panelVars, fileVars>>

\* Line 106: the awaited getCodeScan rejects; the rejection leaves the function.
GetCodeScanFails ==
    /\ pollPc = "query"
    /\ pollPc' = "failed"
    /\ UNCHANGED <<pollInterval, timeoutSeconds, cancelling, status, timer, pollResult,
                   queries, sleeps, opLog, pendingSeen, lastAnswer, cancelPc>>
    /\ UNCHANGED <<aggVars, lineVars, upVars, panelVars, fileVars>>

\* The wake-up that compares with >= instead of >.
SleepDone_TimeoutAtEqual ==
    /\ pollPc = "sleep"
    /\ timer' = timer + pollInterval
    /\ IF timer' >= timeoutSeconds
       THEN /\ pollPc' = "timeout"
            /\ UNCHANGED <<queries, opLog>>
       ELSE LoopHead
    /\ UNCHANGED <<pollInterval, timeoutSeconds, cancelling, status, pollResult, sleeps,
                   pendingSeen, lastAnswer, cancelPc>>
    /\ UNCHANGED <<aggVars, lineVars, upVars, panelVars, fileVars>>

\* Lines 115-121, then 102-106 of the next iteration: the sleep ends, the
\* timer advances, the timeout is tested, and only then the loop head runs.
SleepDone ==
    /\ pollPc = "sleep"
    /\ timer' = timer + pollInterval
    /\ IF timer' > timeoutSeconds
       THEN /\ pollPc' = "timeout"
            /\ UNCHANGED <<queries, opLog>>
       ELSE LoopHead
    /\ UNCHANGED <<pollInterval, timeoutSeconds, cancelling, status, pollResult, sleeps,
                   pendingSeen, lastAnswer, cancelPc>>
    /\ UNCHANGED <<aggVars, lineVars, upVars, panelVars, fileVars>>

\* The external setter of the cancellation flag (codeScanState lives in
\* ../models/model): it may run whenever the poller is suspended, before the
\* call and after the end.
Cancel ==
    /\ ~cancelling
    /\ cancelling' = TRUE
    /\ cancelPc' = pollPc
    /\ UNCHANGED <<pollInterval, timeoutSeconds, pollPc, status, timer, pollResult,
                   queries, sleeps, opLog, pendingSeen, lastAnswer>>
    /\ UNCHANGED <<aggVars, lineVars, upVars, panelVars, fileVars>>

\* The poller before the call, with the two configuration constants given.
PollFresh(interval, timeout) ==
    /\ pollInterval = interval
    /\ timeoutSeconds = timeout
    /\ cancelling = FALSE
    /\ pollPc = "idle"
    /\ status = "Pending"
    /\ timer = 0
    /\ pollResult = "none"
    /\ queries = 0
    /\ sleeps = 0
    /\ opLog = <<>>
    /\ pendingSeen = 0
    /\ lastAnswer = "none"
    /\ cancelPc = "unset"

PollInit ==
    \E interval \in 1..MaxInterval, timeout \in 0..MaxTimeout : PollFresh(interval, timeout)

PollNext ==
    \/ PollStart
    \/ \E s \in Statuses : GetCodeScanResponds(s)
    \/ GetCodeScanFails
    \/ SleepDone
    \/ Cancel

-----------------------------------------------------------------------------
(* listScanResults and mapToAggregatedList *)

\* A path is the sequence of its segments. projectPath is the project root.
ProjectPath == <<"home", "proj">>

\* The local disk under the project root's parent: two regular files at the
\* top, a directory, a regular file inside it; every other path is absent.
FileKind(p) ==
    IF p \in {<<"home", "a.py">>, <<"home", "b.py">>, <<"home", "sub", "c.py">>} THEN "file"
    ELSE IF p \in {<<"home">>, <<"home", "proj">>, <<"home", "sub">>} THEN "dir"
    ELSE "absent"

\* fs.existsSync
ExistsSync(p) == FileKind(p) # "absent"

\* fs.statSync(p).isFile()
IsFile(p) == FileKind(p) = "file"

RECURSIVE NormalizeFrom(_, _, _)
NormalizeFrom(segs, i, acc) ==
    IF i > Len(segs) THEN acc
    ELSE IF segs[i] = "." THEN NormalizeFrom(segs, i + 1, acc)
    ELSE IF segs[i] = ".."
         THEN NormalizeFrom(segs, i + 1,
                            IF Len(acc) > 0 THEN SubSeq(acc, 1, Len(acc) - 1) ELSE acc)
    ELSE NormalizeFrom(segs, i + 1, Append(acc, segs[i]))

\* path.join of absolute a with b and c: concatenated, then "." dropped and
\* ".." resolved against the segment before it.
PathJoin(a, b, c) == NormalizeFrom(a \o b \o c, 1, <<>>)

\* A raw finding, as far as the aggregator reads it.
Issue(path, startLine, endLine, id) ==
    [filePath |-> path, startLine |-> startLine, endLine |-> endLine, findingId |-> id]

\* The raw findings the service may send.
RawIssues ==
    { Issue(<<"a.py">>, 1, 1, "f1"),
      Issue(<<"a.py">>, 0, 2, "f2"),
      Issue(<<"b.py">>, 3, 4, "f3"),
      Issue(<<"gone.py">>, 2, 2, "f4"),
      Issue(<<"sub">>, 1, 6, "f5"),
      Issue(<<"sub", "c.py">>, 5, 5, "f6") }

\* The emitted finding that keeps startLine - 1 even when it is negative.
EmitIssue_NoClamp(issue) ==
    [startLine |-> issue.startLine - 1,
     endLine |-> issue.endLine,
     findingId |-> issue.findingId]

\* Lines 75-89: the emitted finding.
EmitIssue(issue) ==
    [startLine |-> IF issue.startLine - 1 >= 0 THEN issue.startLine - 1 ELSE 0,
     endLine |-> issue.endLine,
     findingId |-> issue.findingId]

\* codeScanIssueMap is a Map: its entries in insertion order.
MapIndex(map, key) == {i \in 1..Len(map) : map[i].key = key}

\* The grouping step that replaces a key's list by the new finding.
PutIssue_Overwrite(map, issue) ==
    IF MapIndex(map, issue.filePath) # {}
    THEN LET i == CHOOSE j \in MapIndex(map, issue.filePath) : TRUE
         IN  [map EXCEPT ![i].issues = <<issue>>]
    ELSE Append(map, [key |-> issue.filePath, issues |-> <<issue>>])

\* Lines 56-66: the finding is pushed on its key's list, or opens a new key
\* (the branch of line 58 needs a key mapped to undefined, which no call sets).
PutIssue(map, issue) ==
    IF MapIndex(map, issue.filePath) # {}
    THEN LET i == CHOOSE j \in MapIndex(map, issue.filePath) : TRUE
         IN  [map EXCEPT ![i].issues = Append(@, issue)]
    ELSE Append(map, [key |-> issue.filePath, issues |-> <<issue>>])

RECURSIVE PutIssues(_, _, _)
\* Lines 55-67: codeScanIssues.forEach
PutIssues(map, issues, i) ==
    IF i > Len(issues) THEN map
    ELSE PutIssues(PutIssue(map, issues[i]), issues, i + 1)

\* The filter that only asks whether the path exists.
Emits_ExistsOnly(filePath) == ExistsSync(filePath)

\* Line 71: the existence filter.
Emits(filePath) == ExistsSync(filePath) /\ IsFile(filePath)

RECURSIVE EmitEntries(_, _, _)
\* Lines 69-94: codeScanIssueMap.forEach over every entry of the map.
EmitEntries(map, i, list) ==
    IF i > Len(map) THEN list
    ELSE LET filePath == PathJoin(ProjectPath, <<"..">>, map[i].key)
         IN  IF Emits(filePath)
             THEN EmitEntries(map, i + 1,
                     Append(list, [filePath |-> filePath,
                                   issues |-> [j \in 1..Len(map[i].issues) |->
                                                  EmitIssue(map[i].issues[j])]]))
             ELSE EmitEntries(map, i + 1, list)

\* A findings document is JSON text: wellFormed says whether JSON.parse
\* accepts it, issues is the array it then yields.
PageOf(issues) == [wellFormed |-> TRUE, issues |-> issues]
MalformedPage == [wellFormed |-> FALSE, issues |-> <<>>]

\* Lines 48-95: one call of mapToAggregatedList on the map and the list
\* shared by all calls. JSON.parse throws on a malformed document.
MapToAggregatedList(map, list, json) ==
    IF ~json.wellFormed
    THEN [threw |-> TRUE, map |-> map, list |-> list]
    ELSE LET grouped == PutIssues(map, json.issues, 1)
         IN  [threw |-> FALSE, map |-> grouped, list |-> EmitEntries(grouped, 1, list)]

RECURSIVE AggregatePages(_, _, _, _)
\* Lines 42-44: issues.forEach(issue => mapToAggregatedList(...)), stopped by
\* the first call that throws.
AggregatePages(docs, i, map, list) ==
    IF i > Len(docs) THEN [threw |-> FALSE, map |-> map, list |-> list]
    ELSE LET r == MapToAggregatedList(map, list, docs[i])
         IN  IF r.threw THEN r ELSE AggregatePages(docs, i + 1, r.map, r.list)

\* The number of findings in the documents received.
RECURSIVE FindingsIn(_)
FindingsIn(docs) ==
    IF docs = <<>> THEN 0 ELSE Len(Head(docs).issues) + FindingsIn(Tail(docs))

\* The sequences over S of length at most n.
SeqsUpTo(S, n) == UNION {[1..k -> S] : k \in 0..n}

\* Lines 28-32: the call; the first page is requested.
ListStart ==
    /\ aggPc = "idle"
    /\ aggPc' = "fetching"
    /\ pageRequests' = 1
    /\ UNCHANGED <<pages, aggResult, aggError>>
    /\ UNCHANGED <<pollVars, lineVars, upVars, panelVars, fileVars>>

\* Lines 31-41: a page arrives with a next token; the next page is requested.
PageArrives(doc) ==
    /\ aggPc = "fetching"
    /\ pageRequests < MaxPages
    /\ pages' = Append(pages, doc)
    /\ pageRequests' = pageRequests + 1
    /\ UNCHANGED <<aggPc, aggResult, aggError>>
    /\ UNCHANGED <<pollVars, lineVars, upVars, panelVars, fileVars>>

\* The last-page handler that catches the parse error and returns what was
\* aggregated before it.
LastPageArrives_ReturnsPartial(doc) ==
    /\ aggPc = "fetching"
    /\ pages' = Append(pages, doc)
    /\ aggPc' = "returned"
    /\ aggResult' = AggregatePages(pages', 1, <<>>, <<>>).list
    /\ UNCHANGED <<aggError, pageRequests>>
    /\ UNCHANGED <<pollVars, lineVars, upVars, panelVars, fileVars>>

\* Lines 31-45: the page without a next token arrives; every document is
\* aggregated and the list is returned.
LastPageArrives(doc) ==
    /\ aggPc = "fetching"
    /\ pages' = Append(pages, doc)
    /\ LET r == AggregatePages(pages', 1, <<>>, <<>>)
       IN  IF r.threw
           THEN /\ aggPc' = "error"
                /\ aggError' = "SyntaxError"
                /\ UNCHANGED aggResult
           ELSE /\ aggPc' = "returned"
                /\ aggResult' = r.list
                /\ UNCHANGED aggError
    /\ UNCHANGED pageRequests
    /\ UNCHANGED <<pollVars, lineVars, upVars, panelVars, fileVars>>

\* Line 32: a page request rejects; the rejection leaves listScanResults.
PageRequestFails ==
    /\ aggPc = "fetching"
    /\ aggPc' = "error"
    /\ aggError' = "RequestError"
    /\ UNCHANGED <<pages, pageRequests, aggResult>>
    /\ UNCHANGED <<pollVars, lineVars, upVars, panelVars, fileVars>>

\* The documents a page may carry, given what was received before.
PageDocs == {MalformedPage} \cup
            {PageOf(q) : q \in SeqsUpTo(RawIssues, MaxFindings - FindingsIn(pages))}

AggInit ==
    /\ aggPc = "idle"
    /\ pages = <<>>
    /\ pageRequests = 0
    /\ aggResult = <<>>
    /\ aggError = "none"

AggNext ==
    \/ ListStart
    \/ \E doc \in PageDocs : PageArrives(doc)
    \/ \E doc \in PageDocs : LastPageArrives(doc)
    \/ PageRequestFails

-----------------------------------------------------------------------------
(* The line normalisation applied to one finding *)

\* A raw finding with the given lines, not yet emitted.
LineFresh(n, e) ==
    /\ rawLines = [startLine |-> n, endLine |-> e]
    /\ outLines = <<>>

LineInit ==
    \E n \in (0 - MaxLine)..MaxLine, e \in (0 - 1)..MaxLine : LineFresh(n, e)

\* Lines 74-77 on one finding.
EmitOne ==
    /\ outLines = <<>>
    /\ outLines' = <<EmitIssue(Issue(<<"a.py">>, rawLines.startLine, rawLines.endLine, "f1"))>>
    /\ UNCHANGED rawLines
    /\ UNCHANGED <<pollVars, aggVars, upVars, panelVars, fileVars>>

-----------------------------------------------------------------------------
(* getPresignedUrlAndUpload, getMd5 and uploadArtifactToS3 *)

\* The archive paths a Truncation may carry: none, two packaged archives and
\* one that is no longer on disk.
ZipPaths == {"", "/tmp/a.zip", "/tmp/b.zip", "/tmp/missing.zip"}

\* fs.readFileSync: the bytes of the file, <<>> when it throws ENOENT.
ReadFileSync(fileName) ==
    IF fileName = "/tmp/a.zip" THEN <<"bytesA">>
    ELSE IF fileName = "/tmp/b.zip" THEN <<"bytesB">>
    ELSE <<>>

\* crypto.createHash('md5').update(bytes).digest('base64')
Md5Base64(bytes) == IF bytes = "bytesA" THEN "md5A==" ELSE "md5B=="

TruncationFailure == "Truncation failure: can't find valid source zip."

UploadGuidance ==
    "Amazon Q is unable to upload workspace artifacts to Amazon S3 for security scans."

\* The message of the error the PUT itself failed with.
RawPutError(outcome) ==
    IF outcome.kind = "networkError" THEN "ECONNRESET" ELSE "Unexpected response"

\* The responses createUploadUrl may give.
UploadResponses ==
    [uploadId : {"u1", "u2"},
     uploadUrl : {"https://s3/one", "https://s3/two"},
     requestHeaders : {"plain", "kms"}]

\* What the PUT may settle with: a response with an HTTP status, or no
\* response at all.
PutOutcomes ==
    [kind : {"response"}, status : {200, 204, 403, 500}]
       \cup {[kind |-> "networkError", status |-> 0]}

\* request.fetch(...).response (../../common/request): the promise rejects
\* when there is no response and when the response is not a success.
FetchRejects(outcome) ==
    \/ outcome.kind = "networkError"
    \/ outcome.status \notin 200..299

\* The call that builds the request, checksum included, before it tests the path.
UploadStart_ChecksumFirst ==
    /\ upPc = "idle"
    /\ md5Calls' = md5Calls + 1
    /\ IF zipFilePath = "" \/ ReadFileSync(zipFilePath) = <<>>
       THEN /\ upPc' = "error"
            /\ upError' = IF zipFilePath = "" THEN TruncationFailure ELSE "ENOENT"
            /\ UNCHANGED <<srcReq, urlRequests>>
       ELSE /\ srcReq' = <<[contentMd5 |-> Md5Base64(ReadFileSync(zipFilePath)[1]),
                            artifactType |-> "SourceCode"]>>
            /\ urlRequests' = urlRequests + 1
            /\ upPc' = "createUploadUrl"
            /\ UNCHANGED upError
    /\ UNCHANGED <<zipFilePath, srcResp, putRequest, putOutcome, artifactMap, puts>>
    /\ UNCHANGED <<pollVars, aggVars, lineVars, panelVars, fileVars>>

\* Lines 144-153: the call. An empty path throws at once; otherwise getMd5
\* reads the archive (and throws what readFileSync throws) and the upload
\* destination is requested.
UploadStart ==
    /\ upPc = "idle"
    /\ IF zipFilePath = ""
       THEN /\ upPc' = "error"
            /\ upError' = TruncationFailure
            /\ UNCHANGED <<srcReq, md5Calls, urlRequests>>
       ELSE /\ md5Calls' = md5Calls + 1
            /\ IF ReadFileSync(zipFilePath) = <<>>
               THEN /\ upPc' = "error"
                    /\ upError' = "ENOENT"
                    /\ UNCHANGED <<srcReq, urlRequests>>
               ELSE /\ srcReq' = <<[contentMd5 |-> Md5Base64(ReadFileSync(zipFilePath)[1]),
                                    artifactType |-> "SourceCode"]>>
                    /\ urlRequests' = urlRequests + 1
                    /\ upPc' = "createUploadUrl"
                    /\ UNCHANGED upError
    /\ UNCHANGED <<zipFilePath, srcResp, putRequest, putOutcome, artifactMap, puts>>
    /\ UNCHANGED <<pollVars, aggVars, lineVars, panelVars, fileVars>>

\* Lines 153-157 and 177-182: createUploadUrl answers; uploadArtifactToS3
\* reads the archive and issues the PUT to the URL with the headers given.
CreateUploadUrlResponds(resp) ==
    /\ upPc = "createUploadUrl"
    /\ srcResp' = <<resp>>
    /\ putRequest' = <<[method |-> "PUT", url |-> resp.uploadUrl,
                        body |-> ReadFileSync(zipFilePath)[1],
                        headers |-> resp.requestHeaders]>>
    /\ puts' = puts + 1
    /\ upPc' = "put"
    /\ UNCHANGED <<zipFilePath, srcReq, putOutcome, artifactMap, upError, md5Calls,
                   urlRequests>>
    /\ UNCHANGED <<pollVars, aggVars, lineVars, panelVars, fileVars>>

\* Line 153: createUploadUrl rejects; the rejection leaves the function.
CreateUploadUrlFails ==
    /\ upPc = "createUploadUrl"
    /\ upPc' = "error"
    /\ upError' = "ServiceError"
    /\ UNCHANGED <<zipFilePath, srcReq, srcResp, putRequest, putOutcome, artifactMap,
                   md5Calls, urlRequests, puts>>
    /\ UNCHANGED <<pollVars, aggVars, lineVars, panelVars, fileVars>>

\* The handler whose catch logs the failure and does not throw.
PutSettles_SwallowsError(outcome) ==
    /\ upPc = "put"
    /\ putOutcome' = <<outcome>>
    /\ upPc' = "returned"
    /\ artifactMap' = <<[SourceCode |-> srcResp[1].uploadId]>>
    /\ UNCHANGED <<zipFilePath, srcReq, srcResp, putRequest, upError, md5Calls,
                   urlRequests, puts>>
    /\ UNCHANGED <<pollVars, aggVars, lineVars, panelVars, fileVars>>

\* Lines 179-191 and 158-162: the PUT settles. A rejection is caught and the
\* error with the guidance text is thrown; otherwise the artifact map with
\* the upload identifier is returned.
PutSettles(outcome) ==
    /\ upPc = "put"
    /\ putOutcome' = <<outcome>>
    /\ IF FetchRejects(outcome)
       THEN /\ upPc' = "error"
            /\ upError' = UploadGuidance
            /\ UNCHANGED artifactMap
       ELSE /\ upPc' = "returned"
            /\ artifactMap' = <<[SourceCode |-> srcResp[1].uploadId]>>
            /\ UNCHANGED upError
    /\ UNCHANGED <<zipFilePath, srcReq, srcResp, putRequest, md5Calls, urlRequests, puts>>
    /\ UNCHANGED <<pollVars, aggVars, lineVars, panelVars, fileVars>>

\* getPresignedUrlAndUpload before the call, given the archive path.
UploadFresh(path) ==
    /\ upPc = "idle"
    /\ zipFilePath = path
    /\ srcReq = <<>>
    /\ srcResp = <<>>
    /\ putRequest = <<>>
    /\ putOutcome = <<>>
    /\ artifactMap = <<>>
    /\ upError = "none"
    /\ md5Calls = 0
    /\ urlRequests = 0
    /\ puts = 0

UploadInit == \E path \in ZipPaths : UploadFresh(path)

UploadNext ==
    \/ UploadStart
    \/ \E resp \in UploadResponses : CreateUploadUrlResponds(resp)
    \/ CreateUploadUrlFails
    \/ \E outcome \in PutOutcomes : PutSettles(outcome)

-----------------------------------------------------------------------------
(* showCodeWhispererWebview *)

\* Panel.show of ../../webviews/main: a panel that has a webview reveals it,
\* a panel that has none creates one; the promise settles with that webview.
PanelNeedsWebview(panel) == panelWebview[panel] = 0

\* Lines 123-129: the call up to `await activePanel.show(...)`. The panel is
\* created when activePanel is undefined and reused otherwise; show is called
\* and the request is suspended until its promise settles.
ShowCall ==
    /\ showRequests < MaxShows
    /\ LET fresh == activePanel = <<>>
           panel == IF fresh THEN panelsCreated + 1 ELSE activePanel[1]
           webview == IF PanelNeedsWebview(panel)
                      THEN webviewsCreated + 1
                      ELSE panelWebview[panel]
       IN  /\ activePanel' = <<panel>>
           /\ panelsCreated' = IF fresh THEN panelsCreated + 1 ELSE panelsCreated
           /\ webviewsCreated' = IF PanelNeedsWebview(panel)
                                 THEN webviewsCreated + 1
                                 ELSE webviewsCreated
           /\ panelWebview' = [panelWebview EXCEPT ![panel] = webview]
           /\ openWebviews' = openWebviews \cup {webview}
           /\ pendingShows' = pendingShows \cup
                                 {[request |-> showRequests + 1, webview |-> webview]}
    /\ showRequests' = showRequests + 1
    /\ UNCHANGED subscriptions
    /\ UNCHANGED <<pollVars, aggVars, lineVars, upVars, fileVars>>

\* Lines 126-139: show settled with the webview; when no subscription is
\* held, the dispose handler is registered on that webview.
ShowResumes(r) ==
    /\ r \in pendingShows
    /\ pendingShows' = pendingShows \ {r}
    /\ subscriptions' = IF subscriptions = <<>> THEN <<r.webview>> ELSE subscriptions
    /\ UNCHANGED <<activePanel, panelWebview, openWebviews, panelsCreated,
                   webviewsCreated, showRequests>>
    /\ UNCHANGED <<pollVars, aggVars, lineVars, upVars, fileVars>>

\* The webview is closed. Its panel forgets it, and the handler of lines
\* 133-137 runs when it is registered on this webview: the subscription is
\* disposed and both module variables are cleared. A handler registered on a
\* webview that was already disposed is never called.
WebviewDisposed(w) ==
    /\ w \in openWebviews
    /\ openWebviews' = openWebviews \ {w}
    /\ panelWebview' = [p \in DOMAIN panelWebview |->
                           IF panelWebview[p] = w THEN 0 ELSE panelWebview[p]]
    /\ IF subscriptions = <<w>>
       THEN /\ activePanel' = <<>>
            /\ subscriptions' = <<>>
       ELSE UNCHANGED <<activePanel, subscriptions>>
    /\ UNCHANGED <<pendingShows, panelsCreated, webviewsCreated, showRequests>>
    /\ UNCHANGED <<pollVars, aggVars, lineVars, upVars, fileVars>>

\* Lines 112-113: the module is loaded, nothing was shown.
PanelInit ==
    /\ activePanel = <<>>
    /\ subscriptions = <<>>
    /\ panelWebview = [p \in 1..MaxShows |-> 0]
    /\ openWebviews = {}
    /\ pendingShows = {}
    /\ panelsCreated = 0
    /\ webviewsCreated = 0
    /\ showRequests = 0

PanelNext ==
    \/ ShowCall
    \/ \E r \in pendingShows : ShowResumes(r)
    \/ \E w \in openWebviews : WebviewDisposed(w)

-----------------------------------------------------------------------------
(* CodeWhispererWebview.openFile and saveFileLocally *)

\* The file names and contents the webview page may send in name[0], name[1].
FileNames == {"a.py", "b.js"}
FileContents == {"c1", "c2"}

\* fs.existsSync(localFilePath)
FileExists(fileName) == files[fileName] # "absent"

\* The test that looks at the file only, not at isFileSaved.
SkipsWrite_FileOnly(fileName) == FileExists(fileName)

\* Line 41: the file is only opened, not written.
SkipsWrite(fileName) == FileExists(fileName) /\ isFileSaved

\* Lines 35-53: openFile. An existing file after a completed save is shown as
\* it is; otherwise saveFileLocally is called, not awaited, and runs to its
\* await of writeFile.
OpenFile(fileName, fileContent) ==
    /\ opens < MaxOpens
    /\ opens' = opens + 1
    /\ lastOpen' = <<[file |-> fileName, content |-> fileContent,
                      existed |-> FileExists(fileName), saved |-> isFileSaved]>>
    /\ IF SkipsWrite(fileName)
       THEN /\ shownFile' = fileName
            /\ UNCHANGED pendingWrites
       ELSE /\ pendingWrites' = pendingWrites \cup
                   {[open |-> opens + 1, file |-> fileName, content |-> fileContent]}
            /\ UNCHANGED shownFile
    /\ UNCHANGED <<isFileSaved, files, writesDone>>
    /\ UNCHANGED <<pollVars, aggVars, lineVars, upVars, panelVars>>

\* Lines 53-57: writeFile completed; the flag is set and the file is shown.
WriteFileDone(w) ==
    /\ w \in pendingWrites
    /\ pendingWrites' = pendingWrites \ {w}
    /\ files' = [files EXCEPT ![w.file] = w.content]
    /\ isFileSaved' = TRUE
    /\ shownFile' = w.file
    /\ writesDone' = writesDone + 1
    /\ UNCHANGED <<opens, lastOpen>>
    /\ UNCHANGED <<pollVars, aggVars, lineVars, upVars, panelVars>>

\* Line 53: writeFile rejects; saveFileLocally ends there and nobody awaits it.
WriteFileFails(w) ==
    /\ w \in pendingWrites
    /\ pendingWrites' = pendingWrites \ {w}
    /\ UNCHANGED <<isFileSaved, files, shownFile, opens, writesDone, lastOpen>>
    /\ UNCHANGED <<pollVars, aggVars, lineVars, upVars, panelVars>>

\* Line 28: a new instance, over a workspace folder with the given files.
FileFresh(disk) ==
    /\ isFileSaved = FALSE
    /\ files = disk
    /\ pendingWrites = {}
    /\ shownFile = "none"
    /\ opens = 0
    /\ writesDone = 0
    /\ lastOpen = <<>>

FileInit == \E disk \in [FileNames -> {"absent", "old"}] : FileFresh(disk)

FileNext ==
    \/ \E fileName \in FileNames, fileContent \in FileContents : OpenFile(fileName, fileContent)
    \/ \E w \in pendingWrites : WriteFileDone(w)
    \/ \E w \in pendingWrites : WriteFileFails(w)

vars == <<pollVars, aggVars, lineVars, upVars, panelVars, fileVars>>

\* Each specification runs one function from its own initial states; the
\* state of the other functions stays as it is before their call.
InitPoll == PollInit /\ AggInit /\ LineFresh(0, 0) /\ UploadFresh("") /\ PanelInit
    /\ FileFresh([f \in FileNames |-> "absent"])

SpecPoll == InitPoll /\ [][PollNext]_vars

InitAgg == PollFresh(1, 0) /\ AggInit /\ LineFresh(0, 0) /\ UploadFresh("") /\ PanelInit
    /\ FileFresh([f \in FileNames |-> "absent"])

SpecAgg == InitAgg /\ [][AggNext]_vars

InitLines == PollFresh(1, 0) /\ AggInit /\ LineInit /\ UploadFresh("") /\ PanelInit
    /\ FileFresh([f \in FileNames |-> "absent"])

LineNext == EmitOne

SpecLines == InitLines /\ [][LineNext]_vars

InitUpload == PollFresh(1, 0) /\ AggInit /\ LineFresh(0, 0) /\ UploadInit /\ PanelInit
    /\ FileFresh([f \in FileNames |-> "absent"])

SpecUpload == InitUpload /\ [][UploadNext]_vars

InitPanel ==
    PollFresh(1, 0) /\ AggInit /\ LineFresh(0, 0) /\ UploadFresh("") /\ PanelInit
    /\ FileFresh([f \in FileNames |-> "absent"])

InitFile ==
    PollFresh(1, 0) /\ AggInit /\ LineFresh(0, 0) /\ UploadFresh("") /\ PanelInit
    /\ FileInit

SpecFile == InitFile /\ [][FileNext]_vars

SpecPanel == InitPanel /\ [][PanelNext]_vars

\* The event loop runs every settled promise's continuation and every expired
\* timer; the service is assumed to settle every request.
FairSpecPoll ==
    /\ SpecPoll
    /\ WF_vars(PollStart)
    /\ WF_vars(\E s \in Statuses : GetCodeScanResponds(s))
    /\ WF_vars(SleepDone)

-----------------------------------------------------------------------------
(* Claims about pollScanJobStatus *)

\* The flag was not set while the poller was running.
NoCancelDuringPoll == cancelPc \in {"unset"} \cup PollTerminal

\* The flag was set before a non-Pending status was observed.
CancelledBeforeEnd == cancelPc \in {"idle", "query", "sleep"}

\* "Q" and "S" strictly alternate in the log, starting with "Q".
Alternating(log) ==
    \A i \in 1..Len(log) : log[i] = (IF i % 2 = 1 THEN "Q" ELSE "S")

\* C1: without cancellation, k Pending answers followed by a non-Pending
\* answer S with k * pollInterval <= timeout give exactly k+1 queries and k
\* sleeps, strictly alternating, and the return value S; such a sequence never
\* ends in the timeout, and the value 'Pending' is never returned.
C1_ReturnsFirstNonPending ==
    /\ pollResult # "Pending"
    /\ (pollPc = "returned") = (pollResult # "none")
    /\ NoCancelDuringPoll =>
          /\ Alternating(opLog)
          /\ Len(opLog) = queries + sleeps
          /\ pollPc = "returned" =>
                /\ lastAnswer \in Statuses \ {"Pending"}
                /\ pollResult = lastAnswer
                /\ queries = pendingSeen + 1
                /\ sleeps = pendingSeen
                /\ pendingSeen * pollInterval <= timeoutSeconds
          /\ pollPc = "timeout" => pendingSeen * pollInterval > timeoutSeconds
          /\ pollPc # "stopped"

\* Two Pending answers, then Completed, with 2 * pollInterval = timeout.
C1_Witness ==
    /\ pollPc = "returned"
    /\ cancelPc = "unset"
    /\ pendingSeen = 2
    /\ sleeps = 2
    /\ pollResult = "Completed"
    /\ pendingSeen * pollInterval = timeoutSeconds

\* C2 as stated: once the flag is set before a non-Pending status was
\* observed, the loop neither returns a status nor raises the timeout.
C2_CancelAlwaysStops ==
    CancelledBeforeEnd => pollPc \notin {"returned", "timeout"}

\* C2 amended: a flag set before a non-Pending status was observed ends the
\* loop with the scan-stopped condition at the next cancellation check, except
\* that the query in flight when it was set, answered non-Pending, still
\* returns that status (or propagates its own failure), and the sleep in
\* flight when it was set, taking the timer above the timeout, still raises
\* the timeout.
C2_CancelStopsAtNextCheck ==
    /\ pollPc = "stopped" => cancelling /\ CancelledBeforeEnd
    /\ CancelledBeforeEnd /\ pollPc \notin PollTerminal => pollPc = cancelPc
    /\ cancelPc = "idle" /\ pollPc # "idle" => pollPc = "stopped" /\ queries = 0
    /\ cancelPc = "query" /\ pollPc \in PollTerminal =>
          \/ pollPc = "failed"
          \/ pollPc = "stopped" /\ lastAnswer = "Pending"
          \/ pollPc = "returned" /\ lastAnswer # "Pending" /\ pollResult = lastAnswer
    /\ cancelPc = "sleep" /\ pollPc \in PollTerminal =>
          \/ pollPc = "stopped" /\ timer <= timeoutSeconds
          \/ pollPc = "timeout" /\ timer > timeoutSeconds

\* The flag is set while the third query is in flight, which answers Pending.
C2_Witness ==
    /\ cancelPc = "query"
    /\ pollPc = "stopped"
    /\ pendingSeen = 3
    /\ sleeps = 2

\* What holds in every state of a run without cancellation: the timer is the
\* number of finished sleeps times the interval, a query is only in flight
\* while the timer is within the timeout, and the timeout is raised by the
\* first sleep that takes the timer above it.
C3_TimeoutSafety ==
    NoCancelDuringPoll =>
       /\ pollPc \in {"query", "timeout"} => timer = sleeps * pollInterval
       /\ pollPc = "sleep" => timer = (sleeps - 1) * pollInterval
       /\ pollPc = "query" => timer <= timeoutSeconds /\ queries = sleeps + 1
       /\ pollPc = "timeout" =>
             /\ timer > timeoutSeconds
             /\ timer - pollInterval <= timeoutSeconds
             /\ queries = sleeps
             /\ pendingSeen = sleeps
             /\ pollResult = "none"
       /\ pollPc \in PollTerminal /\ lastAnswer \in {"none", "Pending"} =>
             pollPc \in {"timeout", "failed"}

\* C3: when every query answers 'Pending' and the flag is never set, the loop
\* ends, and it ends by throwing the timeout error right after the first
\* sleep that makes sleeps * pollInterval strictly greater than the timeout;
\* a sleep that makes it equal to the timeout is followed by another query.
C3_TimeoutAfterFirstExcess ==
    /\ []C3_TimeoutSafety
    /\ [][pollPc = "sleep" /\ pollPc' # "sleep" /\ ~cancelling
             /\ timer' <= timeoutSeconds
             => pollPc' = "query" /\ queries' = queries + 1]_vars
    /\ <>(pollPc \in PollTerminal)

\* A query in flight with the accumulated time equal to the timeout.
C3_QueryAtEqual ==
    /\ pollPc = "query"
    /\ cancelPc = "unset"
    /\ sleeps >= 1
    /\ sleeps * pollInterval = timeoutSeconds

\* The timeout raised in a run of Pending answers, after a query at equality.
C3_Witness ==
    /\ pollPc = "timeout"
    /\ cancelPc = "unset"
    /\ (sleeps - 1) * pollInterval = timeoutSeconds
    /\ sleeps >= 2

\* C4: once the cancellation flag is set, the loop issues no new status query
\* and starts no new sleep: the operation in flight completes and the next
\* step of the loop ends it.
C4_NoNewOperationOnceCancelled ==
    [][cancelling =>
          /\ queries' = queries
          /\ sleeps' = sleeps
          /\ (pollPc' # pollPc => pollPc' \in PollTerminal)]_vars

\* The flag is set during a sleep and the loop stops when the sleep ends.
C4_Witness ==
    /\ cancelPc = "sleep"
    /\ pollPc = "stopped"
    /\ sleeps >= 1
    /\ queries = sleeps

-----------------------------------------------------------------------------
(* Claims about listScanResults *)

RECURSIVE AllFindings(_)
\* The findings of the documents, in arrival order.
AllFindings(docs) ==
    IF docs = <<>> THEN <<>> ELSE Head(docs).issues \o AllFindings(Tail(docs))

\* The relative file paths the findings name.
KeysOf(raw) == {raw[i].filePath : i \in 1..Len(raw)}

RECURSIVE IdsOfKey(_, _)
\* The ids of the findings of raw that name key, in the order of raw.
IdsOfKey(raw, key) ==
    IF raw = <<>> THEN <<>>
    ELSE IF Head(raw).filePath = key
         THEN <<Head(raw).findingId>> \o IdsOfKey(Tail(raw), key)
         ELSE IdsOfKey(Tail(raw), key)

\* The ids of an AggregatedIssue's findings, in its order.
IdsOf(agg) == [j \in 1..Len(agg.issues) |-> agg.issues[j].findingId]

\* The project root's parent joined with a relative path without dots.
Resolved(key) == SubSeq(ProjectPath, 1, Len(ProjectPath) - 1) \o key

\* The positions of list that hold an AggregatedIssue for key.
PlacesOf(list, key) == {i \in 1..Len(list) : list[i].filePath = Resolved(key)}

\* One AggregatedIssue per key of raw whose resolved path is a regular file,
\* holding all the findings of raw for that key in the order of raw, and
\* nothing else.
OnePerExistingKey(list, raw) ==
    LET existing == {k \in KeysOf(raw) : FileKind(Resolved(k)) = "file"}
    IN  /\ Len(list) = Cardinality(existing)
        /\ \A k \in existing :
              /\ Cardinality(PlacesOf(list, k)) = 1
              /\ \A i \in PlacesOf(list, k) : IdsOf(list[i]) = IdsOfKey(raw, k)

\* C5: when the findings arrive in a single page, the result holds exactly
\* one AggregatedIssue per distinct relative file path whose resolved path is
\* a regular file, with all findings of the page for that file in their
\* original order.
C5_SinglePageGrouping ==
    aggPc = "returned" /\ Len(pages) = 1 => OnePerExistingKey(aggResult, pages[1].issues)

\* One page with a.py, b.py, a.py: two AggregatedIssues, of 2 and 1 findings.
C5_Witness ==
    /\ aggPc = "returned"
    /\ Len(pages) = 1
    /\ [i \in 1..Len(pages[1].issues) |-> pages[1].issues[i].findingId] = <<"f1", "f3", "f2">>
    /\ Len(aggResult) = 2
    /\ IdsOf(aggResult[1]) = <<"f1", "f2">>
    /\ IdsOf(aggResult[2]) = <<"f3">>

\* C6: over any number of pages the returned list holds one AggregatedIssue
\* per key, never two with the same file path, each with all findings of its
\* file from all pages in arrival order.
C6_MultiPageGrouping ==
    aggPc = "returned" => OnePerExistingKey(aggResult, AllFindings(pages))

\* C7: every AggregatedIssue returned has a file path, the project root's
\* parent joined with a finding's relative path, that is a regular file; a
\* finding whose resolved path is absent or not a regular file gives no
\* AggregatedIssue and no error, and the findings of the other files are
\* still emitted.
C7_ExistenceFilter ==
    LET raw == AllFindings(pages)
    IN  /\ aggPc = "returned" =>
              /\ \A i \in 1..Len(aggResult) :
                    /\ FileKind(aggResult[i].filePath) = "file"
                    /\ \E k \in KeysOf(raw) : aggResult[i].filePath = Resolved(k)
              /\ \A k \in KeysOf(raw) :
                    (PlacesOf(aggResult, k) # {}) = (FileKind(Resolved(k)) = "file")
        /\ aggPc = "error" =>
              \/ aggError = "RequestError"
              \/ aggError = "SyntaxError" /\ \E i \in 1..Len(pages) : ~pages[i].wellFormed

\* A page naming an absent path, a directory and a regular file: the list is
\* returned with the regular file only.
C7_Witness ==
    /\ aggPc = "returned"
    /\ Len(pages) = 1
    /\ KeysOf(pages[1].issues) = {<<"gone.py">>, <<"sub">>, <<"b.py">>}
    /\ Len(aggResult) = 1
    /\ aggResult[1].filePath = <<"home", "b.py">>

\* C11: listScanResults is all-or-nothing. A failed page request or a
\* malformed page ends it with the error and without a list, whatever the
\* earlier pages held; no page is requested twice; a list is returned only
\* when every page was fetched and parsed.
C11_AllOrNothing ==
    /\ pageRequests <= Len(pages) + 1
    /\ aggPc = "fetching" => pageRequests = Len(pages) + 1
    /\ aggPc = "returned" =>
          /\ \A i \in 1..Len(pages) : pages[i].wellFormed
          /\ pageRequests = Len(pages)
          /\ aggError = "none"
    /\ aggPc \in {"returned", "error"} /\ aggError # "RequestError"
          /\ (\E i \in 1..Len(pages) : ~pages[i].wellFormed) =>
             aggPc = "error" /\ aggError = "SyntaxError" /\ pageRequests = Len(pages)
    /\ aggError = "RequestError" => aggPc = "error" /\ pageRequests = Len(pages) + 1
    /\ aggPc = "error" => aggResult = <<>> /\ aggError # "none"

\* A well-formed first page with a finding of an existing file, then a
\* malformed last page: the error, and no list.
C11_Witness ==
    /\ aggPc = "error"
    /\ aggError = "SyntaxError"
    /\ Len(pages) = 2
    /\ pages[1].wellFormed
    /\ KeysOf(pages[1].issues) = {<<"a.py">>}
    /\ ~pages[2].wellFormed
    /\ aggResult = <<>>

-----------------------------------------------------------------------------
(* Claims about the line normalisation *)

Max(a, b) == IF a > b THEN a ELSE b

\* C8: a raw finding with start line n and end line e is emitted with start
\* line max(0, n - 1), which is 0 for n = 0, n - 1 for n > 0 and never
\* negative, and with end line e.
C8_LineNormalization ==
    outLines # <<>> =>
       LET n == rawLines.startLine
           e == rawLines.endLine
           out == outLines[1]
       IN  /\ out.startLine = Max(0, n - 1)
           /\ out.startLine >= 0
           /\ (n = 0 => out.startLine = 0)
           /\ (n > 0 => out.startLine = n - 1)
           /\ out.endLine = e

\* The finding with start line 0 has been emitted.
C8_Witness ==
    /\ outLines # <<>>
    /\ rawLines.startLine = 0
    /\ outLines[1].startLine = 0
    /\ rawLines.endLine = MaxLine
    /\ outLines[1].endLine = MaxLine

-----------------------------------------------------------------------------
(* Claims about getPresignedUrlAndUpload and uploadArtifactToS3 *)

\* C9: called with an empty archive path, getPresignedUrlAndUpload raises the
\* precondition failure at once: no checksum is computed, no upload
\* destination is requested, no PUT is issued and no artifact map is returned.
C9_EmptyPathFailsFirst ==
    zipFilePath = "" /\ upPc # "idle" =>
       /\ upPc = "error"
       /\ upError = TruncationFailure
       /\ md5Calls = 0
       /\ urlRequests = 0
       /\ puts = 0
       /\ srcReq = <<>>
       /\ putRequest = <<>>
       /\ artifactMap = <<>>

\* The call with the empty path has ended.
C9_Witness ==
    /\ zipFilePath = ""
    /\ upPc = "error"
    /\ upError = TruncationFailure

\* The PUT got a response with a success status.
PutSucceeded ==
    /\ putOutcome # <<>>
    /\ putOutcome[1].kind = "response"
    /\ putOutcome[1].status >= 200
    /\ putOutcome[1].status < 300

\* C10: one PUT is issued and never a second one; when it fails, by a network
\* error or by a non-success response, the error raised carries the fixed
\* guidance text and not the underlying message, and no artifact map is
\* returned; the artifact map, with the upload identifier, is returned only
\* when the PUT succeeded.
C10_SinglePutNoRetry ==
    /\ puts <= 1
    /\ upPc = "put" => puts = 1
    /\ putOutcome # <<>> =>
          /\ puts = 1
          /\ upPc \in {"returned", "error"}
          /\ ~PutSucceeded =>
                /\ upPc = "error"
                /\ upError = UploadGuidance
                /\ upError # RawPutError(putOutcome[1])
                /\ artifactMap = <<>>
          /\ PutSucceeded => upPc = "returned"
    /\ upPc = "returned" =>
          /\ PutSucceeded
          /\ artifactMap = <<[SourceCode |-> srcResp[1].uploadId]>>
    /\ artifactMap # <<>> => upPc = "returned"

\* The storage endpoint answered 403 and the upload-failed error was raised.
C10_Witness ==
    /\ upPc = "error"
    /\ putOutcome = <<[kind |-> "response", status |-> 403]>>
    /\ upError = UploadGuidance
    /\ puts = 1

-----------------------------------------------------------------------------
(* Claims about showCodeWhispererWebview *)

\* At most one panel is live, and the subscription list holds at most one
\* dispose subscription.
AtMostOneLivePanel ==
    /\ Cardinality(openWebviews) <= 1
    /\ Cardinality({p \in DOMAIN panelWebview : panelWebview[p] # 0}) <= 1
    /\ Len(subscriptions) <= 1

\* A show-request made while the active panel is live reuses it.
LivePanelIsReused ==
    showRequests' = showRequests + 1 /\ activePanel # <<>>
       /\ panelWebview[activePanel[1]] \in openWebviews
    => activePanel' = activePanel /\ panelsCreated' = panelsCreated

\* The disposal of a webview clears activePanel and subscriptions.
DisposeClearsBoth ==
    openWebviews' # openWebviews /\ openWebviews' \subseteq openWebviews
    => activePanel' = <<>> /\ subscriptions' = <<>>

\* A show-request made when the webview shown before has been disposed
\* creates a new panel.
ShowAfterDisposeIsFresh ==
    showRequests' = showRequests + 1 /\ webviewsCreated > 0 /\ openWebviews = {}
    => panelsCreated' = panelsCreated + 1 /\ activePanel' = <<panelsCreated'>>

\* C12: over every interleaving of show-requests, suspended at the await of
\* show or not, and webview disposals, at most one panel is live and every
\* show-request reuses it while it is live, at most one dispose subscription
\* is registered, the disposal of the webview clears both activePanel and
\* subscriptions, and the show-request after a disposal creates a fresh panel.
C12_ActivePanelSingleton ==
    /\ []AtMostOneLivePanel
    /\ [][LivePanelIsReused]_vars
    /\ [][DisposeClearsBoth]_vars
    /\ [][ShowAfterDisposeIsFresh]_vars


-----------------------------------------------------------------------------
(* Claims about CodeWhispererWebview.openFile *)

\* The step is an openFile call.
IsOpenFileStep == opens' = opens + 1

\* The write the openFile call of this step asks for.
WriteOfThisOpen ==
    [open |-> opens', file |-> lastOpen'[1].file, content |-> lastOpen'[1].content]

\* openFile asks for a write of the supplied content, unless the file exists
\* and a save of this instance has completed; then nothing is written.
OpenWritesUnlessSaved ==
    IsOpenFileStep =>
        /\ lastOpen'[1].existed = FileExists(lastOpen'[1].file)
        /\ lastOpen'[1].saved = isFileSaved
        /\ files' = files
        /\ IF lastOpen'[1].existed /\ lastOpen'[1].saved
           THEN pendingWrites' = pendingWrites
           ELSE /\ WriteOfThisOpen \notin pendingWrites
                /\ pendingWrites' = pendingWrites \cup {WriteOfThisOpen}

\* The first openFile of an instance asks for the write, existing file or not.
FirstOpenWrites ==
    (IsOpenFileStep /\ opens = 0) => pendingWrites' = {WriteOfThisOpen}

\* A completed write puts the supplied content into the file it was asked for
\* and nowhere else; nothing else changes a file.
OnlyWritesChangeFiles ==
    files' # files =>
        \E w \in pendingWrites :
            /\ pendingWrites' = pendingWrites \ {w}
            /\ files' = [files EXCEPT ![w.file] = w.content]
            /\ w.content \in FileContents

\* isFileSaved is one flag of the instance: set by the first completed write of
\* any file, never cleared.
FlagIsMonotone == isFileSaved => isFileSaved'

FlagMeansSaveCompleted == isFileSaved <=> writesDone > 0

\* C13: openFile writes the supplied content to the workspace file unless the
\* file already exists and a previous save of this instance has completed
\* (isFileSaved, one flag per instance, not per file): the first openFile of an
\* instance always asks for the write, even of an existing file, and once any
\* save has completed an openFile of an existing file changes no content and
\* isFileSaved never goes back to false.
C13_OpenFileWritesUnlessSaved ==
    /\ []FlagMeansSaveCompleted
    /\ [][OpenWritesUnlessSaved]_vars
    /\ [][FirstOpenWrites]_vars
    /\ [][OnlyWritesChangeFiles]_vars
    /\ [][FlagIsMonotone]_vars

\* The first openFile overwrote the existing a.py; the save completed; the
\* second openFile, of the existing b.js, wrote nothing although b.js itself
\* was never saved by the instance.
C13_Witness ==
    /\ opens = 2
    /\ writesDone = 1
    /\ isFileSaved
    /\ files["a.py"] = "c1"
    /\ lastOpen # <<>>
    /\ lastOpen[1].file = "b.js"
    /\ lastOpen[1].content = "c2"
    /\ lastOpen[1].existed
    /\ lastOpen[1].saved
    /\ files["b.js"] = "old"
    /\ shownFile = "b.js"
    /\ pendingWrites = {}

=============================================================================
